---------------------------- MODULE Spec2Model ----------------------------
(***************************************************************************)
(* Model of src/main.py: the tool registry (register_tool,                 *)
(* create_or_update_tool, call_tool, serialize_tool_result) and the        *)
(* tool-calling control loop run_main_loop.                                *)
(*                                                                         *)
(* Python values are abstracted as follows.                                *)
(*  - Callables and other objects bound in the module globals are strings  *)
(*    ("fn_task_completed", "f1", ...); "None" is the absent value.        *)
(*  - A tool result is a tuple of strings <<kind, name, detail>>.          *)
(*  - The text of tool_call.function.arguments is a record with a field    *)
(*    wf (the text is well-formed JSON) and the value it decodes to.       *)
(*  - Exceptions are those of class Exception, the class the handlers of   *)
(*    the program catch.                                                   *)
(***************************************************************************)
EXTENDS Integers, Sequences, FiniteSets, TLC

VARIABLES
    tools,                \* module global `tools`: the schema list
    available_functions,  \* module global `available_functions`
    globs,                \* the module's global scope, as seen by exec(code, globals())
    messages,             \* run_main_loop: the conversation
    iteration,            \* run_main_loop: the turn counter
    pc,                   \* run_main_loop: position ("while", "for", "Completed", "Exhausted")
    tool_calls,           \* run_main_loop: response_message.tool_calls of the current turn
    idx,                  \* run_main_loop: 1-based position of the for loop in tool_calls
    request,              \* the messages and tools of the latest completion(...) call
    appended,             \* number of messages.append(...) calls made so far
    event,                \* what the latest step of the loop did
    calls,                \* number of completion(...) calls made so far
    last                  \* the latest direct call of a registry function and its outcome

vars == <<tools, available_functions, globs, messages, iteration, pc, tool_calls,
          idx, request, appended, event, calls, last>>

loopVars == <<messages, iteration, pc, tool_calls, idx, request, appended, event, calls>>

(***************************************************************************)
(* Bounds of the model and constants of the program.                       *)
(***************************************************************************)
max_iterations == 50

MAX_TOOL_OUTPUT_LENGTH == 5000

\* most messages the responses of one run ask for: a response with k tool-call
\* requests asks for 1 + k messages, the assistant message and k tool results
MaxAppended == 4

\* most direct calls of registry functions in the registry specification
MaxOps == 3

\* longest serialized result, and largest max_length, passed to
\* serialize_tool_result in the serialization specification
MaxLen == 4

(***************************************************************************)
(* Names, objects, sources, parameter schemas.                             *)
(***************************************************************************)
BuiltinNames == {"create_or_update_tool", "install_package", "task_completed"}

Names == BuiltinNames \cup {"foo", "bar"}

None == "None"

\* The objects a global name can be bound to.
Objects == {"fn_create_or_update_tool", "fn_install_package", "fn_task_completed",
            "f1", "f2", "f3", "f4"}

\* Source texts the model may pass as `code`.
\*   src_f1      def foo(): return <JSON value>
\*   src_f2      def foo(): return <object json.dumps rejects with TypeError>
\*   src_f3      def foo(): raise ...
\*   src_f4      def foo(): return <self-referencing list>
\*   src_bar     def bar(): return <JSON value>     (defines bar, not foo)
\*   src_syntax  text that does not compile
\*   src_raise   def foo(): ... ; followed by a top-level statement that raises
Sources == {"src_f1", "src_f2", "src_f3", "src_f4", "src_bar", "src_syntax", "src_raise"}

Compiles(code) == code # "src_syntax"

\* The top-level bindings made by executing `code`, as <<name, object>> pairs.
Binds(code) ==
    CASE code = "src_f1" -> {<<"foo", "f1">>}
      [] code = "src_f2" -> {<<"foo", "f2">>}
      [] code = "src_f3" -> {<<"foo", "f3">>}
      [] code = "src_f4" -> {<<"foo", "f4">>}
      [] code = "src_bar" -> {<<"bar", "f1">>}
      [] code = "src_raise" -> {<<"foo", "f1">>}
      [] OTHER -> {}

\* The top-level code raises after making its bindings.
RaisesAtTopLevel(code) == code = "src_raise"

\* Parameter schemas: P0 is {}, P1 and P2 are mappings with one key, P_def and
\* P_pkg are the mappings of lines 166-188 and 195-200, and "notmap" is a value
\* that is no mapping (it has no keys()).
ParamValues == {"P0", "P1", "P2", "P_def", "P_pkg", "notmap"}

IsMapping(parameters) == parameters # "notmap"

Keys(parameters) ==
    CASE parameters = "P1" -> {"x"}
      [] parameters = "P2" -> {"y"}
      [] parameters = "P_def" -> {"name", "code", "description", "parameters"}
      [] parameters = "P_pkg" -> {"package_name"}
      [] OTHER -> {}


(***************************************************************************)
(* The registry: register_tool, create_or_update_tool, install_package,    *)
(* task_completed, serialize_tool_result, call_tool.                       *)
(***************************************************************************)
\* The entry register_tool appends to `tools` (the "type" fields are fixed).
ToolSchema(name, description, parameters) ==
    [name |-> name, description |-> description, properties |-> parameters,
     required |-> Keys(parameters)]

\* A variant of register_tool that does not drop the entry the name had.
RegisterToolKeepsOld(name, func, description, parameters, T, AF) ==
    LET AF1 == [AF EXCEPT ![name] = func]
    IN IF IsMapping(parameters)
       THEN [raised |-> FALSE,
             tools |-> Append(T, ToolSchema(name, description, parameters)),
             af |-> AF1]
       ELSE [raised |-> TRUE, tools |-> T, af |-> AF1]

\* register_tool(name, func, description, parameters) on the registry (T, AF).
\* The statements run in order: `tools` is filtered, available_functions[name] is
\* assigned, and the entry is built and appended; list(parameters.keys()) raises
\* AttributeError while the entry is built when parameters is no mapping.
register_tool(name, func, description, parameters, T, AF) ==
    LET T1 == SelectSeq(T, LAMBDA tool : tool.name # name)
        AF1 == [AF EXCEPT ![name] = func]
    IN IF IsMapping(parameters)
       THEN [raised |-> FALSE,
             tools |-> Append(T1, ToolSchema(name, description, parameters)),
             af |-> AF1]
       ELSE [raised |-> TRUE, tools |-> T1, af |-> AF1]

\* exec(code, globals()): SyntaxError before anything runs when the text does
\* not compile; otherwise the top-level bindings are made in G, and a runtime
\* error of the top-level code leaves the bindings made before it.
exec(code, G) ==
    IF ~Compiles(code)
    THEN [raised |-> TRUE, exc |-> "SyntaxError", globs |-> G]
    ELSE [raised |-> RaisesAtTopLevel(code),
          exc |-> IF RaisesAtTopLevel(code) THEN "RuntimeError" ELSE "-",
          globs |-> [n \in DOMAIN G |->
                        IF \E b \in Binds(code) : b[1] = n
                        THEN (CHOOSE b \in Binds(code) : b[1] = n)[2]
                        ELSE G[n]]]

\* A variant of create_or_update_tool that drops the entry of the name before
\* it runs the source.
CreateDropsEntryFirst(name, code, description, parameters, T, AF, G) ==
    LET ex == exec(code, G)
        T0 == SelectSeq(T, LAMBDA tool : tool.name # name)
        AF0 == [AF EXCEPT ![name] = None]
    IN IF ex.raised
       THEN [result |-> <<"create_error", name, ex.exc>>,
             tools |-> T0, af |-> AF0, globs |-> ex.globs]
       ELSE IF ex.globs[name] = None
       THEN [result |-> <<"create_error", name, "KeyError">>,
             tools |-> T0, af |-> AF0, globs |-> ex.globs]
       ELSE LET reg == register_tool(name, ex.globs[name], description, parameters, T0, AF0)
            IN [result |-> IF reg.raised
                           THEN <<"create_error", name, "AttributeError">>
                           ELSE <<"created", name, "-">>,
                tools |-> reg.tools, af |-> reg.af, globs |-> ex.globs]

\* create_or_update_tool(name, code, description, parameters) on (T, AF, G).
create_or_update_tool(name, code, description, parameters, T, AF, G) ==
    LET ex == exec(code, G)
    IN IF ex.raised
       THEN [result |-> <<"create_error", name, ex.exc>>,
             tools |-> T, af |-> AF, globs |-> ex.globs]
       ELSE IF ex.globs[name] = None
       THEN [result |-> <<"create_error", name, "KeyError">>,
             tools |-> T, af |-> AF, globs |-> ex.globs]
       ELSE LET reg == register_tool(name, ex.globs[name], description, parameters, T, AF)
            IN [result |-> IF reg.raised
                           THEN <<"create_error", name, "AttributeError">>
                           ELSE <<"created", name, "-">>,
                tools |-> reg.tools, af |-> reg.af, globs |-> ex.globs]

\* install_package(package_name); `installs` is whether the subprocess succeeds.
install_package(package_name, installs) ==
    IF installs THEN <<"installed", package_name, "-">>
    ELSE <<"install_error", package_name, "CalledProcessError">>

task_completed == <<"completed", "-", "-">>

\* The keyword parameters of a callable: "def" is (name, code, description,
\* parameters), "pkg" is (package_name), "none" is ().
Signature(func) ==
    CASE func = "fn_create_or_update_tool" -> "def"
      [] func = "fn_install_package" -> "pkg"
      [] OTHER -> "none"

\* func(**args) for a callable of the registry, on (T, AF, G).
\* args.keys is the key set of the decoded arguments ("list": no mapping at all).
Apply(func, function_name, args, installs, T, AF, G) ==
    LET same(r) == [raised |-> FALSE, result |-> r, tools |-> T, af |-> AF, globs |-> G]
        fail(e) == [raised |-> TRUE, result |-> <<"-", "-", e>>,
                    tools |-> T, af |-> AF, globs |-> G]
    IN CASE args.keys # Signature(func) -> fail("TypeError")
         [] func = "fn_create_or_update_tool" ->
                LET r == create_or_update_tool(args.name, args.code, args.description,
                                               args.parameters, T, AF, G)
                IN [raised |-> FALSE, result |-> r.result, tools |-> r.tools,
                    af |-> r.af, globs |-> r.globs]
         [] func = "fn_install_package" -> same(install_package(args.package_name, installs))
         [] func = "fn_task_completed" -> same(task_completed)
         [] func = "f1" -> same(<<"value_json", function_name, "-">>)
         [] func = "f2" -> same(<<"value_obj", function_name, "-">>)
         [] func = "f3" -> fail("RuntimeError")
         [] OTHER -> same(<<"value_cyclic", function_name, "-">>)

\* A variant of call_tool without the test of line 136: the missing
\* implementation is called and the TypeError of calling None is reported.
CallToolWithoutLookupTest(function_name, args, installs, T, AF, G) ==
    LET func == AF[function_name]
    IN IF func = None
       THEN [result |-> <<"exec_error", function_name, "TypeError">>,
             tools |-> T, af |-> AF, globs |-> G, ran |-> None]
       ELSE LET r == Apply(func, function_name, args, installs, T, AF, G)
            IN [result |-> IF r.raised
                           THEN <<"exec_error", function_name, r.result[3]>>
                           ELSE r.result,
                tools |-> r.tools, af |-> r.af, globs |-> r.globs, ran |-> func]

\* A variant of call_tool whose failure text leaves out the exception.
CallToolHidesCause(function_name, args, installs, T, AF, G) ==
    LET func == AF[function_name]
    IN IF func = None
       THEN [result |-> <<"not_found", function_name, "-">>,
             tools |-> T, af |-> AF, globs |-> G, ran |-> None]
       ELSE LET r == Apply(func, function_name, args, installs, T, AF, G)
            IN [result |-> IF r.raised
                           THEN <<"exec_error", function_name, "-">>
                           ELSE r.result,
                tools |-> r.tools, af |-> r.af, globs |-> r.globs, ran |-> func]

\* call_tool(function_name, args) on (T, AF, G).
call_tool(function_name, args, installs, T, AF, G) ==
    LET func == AF[function_name]
    IN IF func = None
       THEN [result |-> <<"not_found", function_name, "-">>,
             tools |-> T, af |-> AF, globs |-> G, ran |-> None]
       ELSE LET r == Apply(func, function_name, args, installs, T, AF, G)
            IN [result |-> IF r.raised
                           THEN <<"exec_error", function_name, r.result[3]>>
                           ELSE r.result,
                tools |-> r.tools, af |-> r.af, globs |-> r.globs, ran |-> func]

\* The notice of line 128, a text of several characters that embeds both
\* numbers (the colour codes are left out).
TruncationNotice(max_length, total) ==
    <<"(Note: Result was truncated to ", ToString(max_length),
      " characters out of ", ToString(total), " total characters.)">>

\* A variant of Truncate whose notice states the kept length as the total.
TruncateStatesKeptLength(serialized_result, max_length) ==
    IF Len(serialized_result) > max_length
    THEN SubSeq(serialized_result, 1, max_length)
         \o TruncationNotice(max_length, max_length)
    ELSE serialized_result

\* Lines 125-131 of serialize_tool_result, on a text given as the sequence of
\* its characters.
Truncate(serialized_result, max_length) ==
    IF Len(serialized_result) > max_length
    THEN SubSeq(serialized_result, 1, max_length)
         \o TruncationNotice(max_length, Len(serialized_result))
    ELSE serialized_result

\* serialize_tool_result(tool_result): json.dumps, str() when json.dumps raises
\* TypeError; the ValueError json.dumps raises on a self-referencing value is
\* not caught here. The text is then cut to MAX_TOOL_OUTPUT_LENGTH.
serialize_tool_result(tool_result) ==
    CASE tool_result[1] = "value_cyclic" -> [raised |-> TRUE, text |-> <<>>]
      [] tool_result[1] = "value_obj" ->
            [raised |-> FALSE,
             text |-> Truncate(<<"str">> \o tool_result, MAX_TOOL_OUTPUT_LENGTH)]
      [] OTHER ->
            [raised |-> FALSE,
             text |-> Truncate(<<"json">> \o tool_result, MAX_TOOL_OUTPUT_LENGTH)]

\* json.loads(tool_call.function.arguments)
json_loads(arguments) == [raised |-> ~arguments.wf, val |-> arguments.val]

(***************************************************************************)
(* The state after the module is loaded (lines 26 and 162-205).            *)
(***************************************************************************)
EmptyRegistry == [n \in Names |-> None]

InitGlobs ==
    [n \in Names |->
        CASE n = "create_or_update_tool" -> "fn_create_or_update_tool"
          [] n = "install_package" -> "fn_install_package"
          [] n = "task_completed" -> "fn_task_completed"
          [] OTHER -> None]

Reg1 == register_tool("create_or_update_tool", "fn_create_or_update_tool",
                      "builtin", "P_def", <<>>, EmptyRegistry)

Reg2 == register_tool("install_package", "fn_install_package",
                      "builtin", "P_pkg", Reg1.tools, Reg1.af)

Reg3 == register_tool("task_completed", "fn_task_completed",
                      "builtin", "P0", Reg2.tools, Reg2.af)


(***************************************************************************)
(* run_main_loop: messages, responses of the completion function.          *)
(***************************************************************************)
NoArgs ==
    [keys |-> "none", name |-> "-", code |-> "-", description |-> "-",
     parameters |-> "-", package_name |-> "-"]

DefArgs(name, code, description, parameters) ==
    [keys |-> "def", name |-> name, code |-> code, description |-> description,
     parameters |-> parameters, package_name |-> "-"]

PkgArgs(package_name) == [NoArgs EXCEPT !.keys = "pkg", !.package_name = package_name]

\* Argument texts: well-formed JSON of a value, or text json.loads rejects.
Json(val) == [wf |-> TRUE, val |-> val]

BadJson == [wf |-> FALSE, val |-> NoArgs]

\* The tool-call requests (function name, arguments text) a response may carry.
Requests ==
    { [name |-> "task_completed", arguments |-> Json(NoArgs)],
      [name |-> "install_package", arguments |-> BadJson],
      [name |-> "foo", arguments |-> Json(NoArgs)],
      [name |-> "create_or_update_tool",
       arguments |-> Json(DefArgs("foo", "src_f1", "d1", "P1"))],
      [name |-> "create_or_update_tool",
       arguments |-> Json(DefArgs("foo", "src_f4", "d2", "P2"))],
      [name |-> "create_or_update_tool",
       arguments |-> Json(DefArgs("foo", "src_f4", "d2", "notmap"))],
      [name |-> "create_or_update_tool",
       arguments |-> Json(DefArgs("task_completed", "src_f1", "d1", "notmap"))] }

SystemMessage ==
    [role |-> "system", content |-> <<"system_prompt">>, tool_calls |-> <<>>,
     name |-> "-", tool_call_id |-> 0]

UserMessage ==
    [role |-> "user", content |-> <<"user_prompt">>, tool_calls |-> <<>>,
     name |-> "-", tool_call_id |-> 0]

\* response.choices[0].message: the assistant message of a response whose
\* requests are reqs; the completion function gives each request a fresh id.
AssistantMessage(reqs, at) ==
    [role |-> "assistant", content |-> <<"text">>,
     tool_calls |-> [i \in 1..Len(reqs) |->
                        [id |-> 10 * at + i, name |-> reqs[i].name,
                         arguments |-> reqs[i].arguments]],
     name |-> "-", tool_call_id |-> 0]

\* A variant of ToolMessage that does not copy the request's id.
ToolMessageNoId(tool_call, serialized_tool_result) ==
    [role |-> "tool", content |-> serialized_tool_result, tool_calls |-> <<>>,
     name |-> tool_call.name, tool_call_id |-> 0]

\* The message of lines 250-257.
ToolMessage(tool_call, serialized_tool_result) ==
    [role |-> "tool", content |-> serialized_tool_result, tool_calls |-> <<>>,
     name |-> tool_call.name, tool_call_id |-> tool_call.id]

\* The number of messages the responses in msgs asked for.
RECURSIVE Asked(_)
Asked(msgs) ==
    IF msgs = <<>> THEN 0
    ELSE Asked(Tail(msgs))
         + (IF Head(msgs).role = "assistant" THEN 1 + Len(Head(msgs).tool_calls) ELSE 0)

\* A variant of RequestsCompletion that holds of any non-empty tool_calls.
RequestsAnything(tcs) == tcs # <<>>

\* Lines 258-260: "task_completed" in [tc.function.name for tc in tool_calls].
RequestsCompletion(tcs) == \E i \in 1..Len(tcs) : tcs[i].name = "task_completed"

NoCall == [n |-> 0, op |-> "-", name |-> "-", func |-> "-", code |-> "-",
           description |-> "-", parameters |-> "-", raised |-> FALSE,
           result |-> <<"-", "-", "-">>, ran |-> "-", keys |-> "-",
           text |-> <<>>, max_length |-> 0, out |-> <<>>]

Init ==
    /\ tools = Reg3.tools
    /\ available_functions = Reg3.af
    /\ globs = InitGlobs
    /\ messages = <<SystemMessage, UserMessage>>
    /\ iteration = 0
    /\ pc = "while"
    /\ tool_calls = <<>>
    /\ idx = 0
    /\ request = [messages |-> <<>>, tools |-> <<>>]
    /\ appended = 0
    /\ event = "start"
    /\ calls = 0
    /\ last = NoCall

\* A variant of NextIteration that does not advance the turn counter.
NextIterationNoIncrement ==
    /\ iteration' = iteration
    /\ pc' = "while"

\* Lines 268-269: the end of an iteration of the while loop.
NextIteration ==
    /\ iteration' = iteration + 1
    /\ pc' = "while"

\* A variant of CompletionRaises whose handler records the error in the
\* conversation.
CompletionRaisesAppends ==
    /\ pc = "while"
    /\ iteration < max_iterations
    /\ request' = [messages |-> messages, tools |-> tools]
    /\ calls' = calls + 1
    /\ event' = "completion_raised"
    /\ NextIteration
    /\ messages' = Append(messages, [role |-> "assistant", content |-> <<"error">>,
                                     tool_calls |-> <<>>, name |-> "-",
                                     tool_call_id |-> 0])
    /\ appended' = appended + 1
    /\ UNCHANGED <<tools, available_functions, globs, tool_calls, idx, last>>

\* A variant of CompletionRaises whose handler starts the conversation over.
CompletionRaisesResetsConversation ==
    /\ pc = "while"
    /\ iteration < max_iterations
    /\ request' = [messages |-> messages, tools |-> tools]
    /\ calls' = calls + 1
    /\ event' = "completion_raised"
    /\ NextIteration
    /\ messages' = <<SystemMessage, UserMessage>>
    /\ UNCHANGED <<tools, available_functions, globs, tool_calls, idx,
                   appended, last>>

\* Lines 235-238 raise (the completion call fails, or the response has no
\* choices[0].message); lines 263-269 follow.
CompletionRaises ==
    /\ pc = "while"
    /\ iteration < max_iterations
    /\ request' = [messages |-> messages, tools |-> tools]
    /\ calls' = calls + 1
    /\ event' = "completion_raised"
    /\ NextIteration
    /\ UNCHANGED <<tools, available_functions, globs, messages, tool_calls, idx,
                   appended, last>>

\* Lines 235-244 with a response; with no tool calls lines 268-269 follow.
CompletionReturns(reqs) ==
    /\ pc = "while"
    /\ iteration < max_iterations
    /\ Asked(messages) + 1 + Len(reqs) <= MaxAppended
    /\ request' = [messages |-> messages, tools |-> tools]
    /\ calls' = calls + 1
    /\ LET response_message == AssistantMessage(reqs, Len(messages) + 1)
       IN /\ messages' = Append(messages, response_message)
          /\ appended' = appended + 1
          /\ tool_calls' = response_message.tool_calls
    /\ IF reqs = <<>>
       THEN /\ NextIteration
            /\ idx' = 0
            /\ event' = "no_tool_calls"
       ELSE /\ pc' = "for"
            /\ idx' = 1
            /\ iteration' = iteration
            /\ event' = "response"
    /\ UNCHANGED <<tools, available_functions, globs, last>>

\* Lines 245-257 for tool_calls[idx]; an exception of json.loads or of
\* serialize_tool_result leaves the for loop for lines 263-269.
ProcessToolCall(installs) ==
    /\ pc = "for"
    /\ idx <= Len(tool_calls)
    /\ LET tool_call == tool_calls[idx]
           function_name == tool_call.name
           decoded == json_loads(tool_call.arguments)
           called == call_tool(function_name, decoded.val, installs,
                               tools, available_functions, globs)
           serialized == serialize_tool_result(called.result)
       IN IF decoded.raised
          THEN /\ event' = "decode_error"
               /\ NextIteration
               /\ UNCHANGED <<tools, available_functions, globs, messages, appended, idx>>
          ELSE /\ tools' = called.tools
               /\ available_functions' = called.af
               /\ globs' = called.globs
               /\ IF serialized.raised
                  THEN /\ event' = "serialize_error"
                       /\ NextIteration
                       /\ UNCHANGED <<messages, appended, idx>>
                  ELSE /\ event' = "tool_result"
                       /\ messages' = Append(messages, ToolMessage(tool_call, serialized.text))
                       /\ appended' = appended + 1
                       /\ idx' = idx + 1
                       /\ UNCHANGED <<iteration, pc>>
    /\ UNCHANGED <<tool_calls, request, calls, last>>

\* Lines 258-262 after the for loop, then lines 268-269 when the loop goes on.
EndOfToolCalls ==
    /\ pc = "for"
    /\ idx > Len(tool_calls)
    /\ IF RequestsCompletion(tool_calls)
       THEN /\ pc' = "Completed"
            /\ iteration' = iteration
            /\ event' = "break"
       ELSE /\ NextIteration
            /\ event' = "turn_done"
    /\ UNCHANGED <<tools, available_functions, globs, messages, tool_calls, idx,
                   request, appended, calls, last>>

\* Line 230: the while condition fails.
LoopExit ==
    /\ pc = "while"
    /\ iteration >= max_iterations
    /\ pc' = "Exhausted"
    /\ event' = "limit"
    /\ UNCHANGED <<tools, available_functions, globs, messages, iteration, tool_calls,
                   idx, request, appended, calls, last>>

Next ==
    \/ CompletionRaises
    \/ \E k \in 0..(MaxAppended - 1 - Asked(messages)) :
          \E reqs \in [1..k -> Requests] : CompletionReturns(reqs)
    \/ \E installs \in BOOLEAN : ProcessToolCall(installs)
    \/ EndOfToolCalls
    \/ LoopExit

Spec == Init /\ [][Next]_vars


(***************************************************************************)
(* The registry functions called directly, in any order, on the state the  *)
(* module load leaves (the loop does not run).                             *)
(***************************************************************************)
RegNames == {"foo", "task_completed"}

\* <<description, parameters>> pairs passed by the direct calls.
RegSchemas == {<<"d1", "P1">>, <<"d2", "P2">>, <<"d1", "notmap">>}

CallArgs == {NoArgs, PkgArgs("pkg"), [NoArgs EXCEPT !.keys = "list"]}

RegisterTool(name, func, description, parameters) ==
    /\ last.n < MaxOps
    /\ LET reg == register_tool(name, func, description, parameters,
                                tools, available_functions)
       IN /\ tools' = reg.tools
          /\ available_functions' = reg.af
          /\ last' = [NoCall EXCEPT !.n = last.n + 1, !.op = "register_tool",
                                    !.name = name, !.func = func,
                                    !.description = description,
                                    !.parameters = parameters, !.raised = reg.raised]
    /\ UNCHANGED <<globs, loopVars>>

CreateOrUpdateTool(name, code, description, parameters) ==
    /\ last.n < MaxOps
    /\ LET r == create_or_update_tool(name, code, description, parameters,
                                      tools, available_functions, globs)
       IN /\ tools' = r.tools
          /\ available_functions' = r.af
          /\ globs' = r.globs
          /\ last' = [NoCall EXCEPT !.n = last.n + 1, !.op = "create_or_update_tool",
                                    !.name = name, !.code = code,
                                    !.description = description,
                                    !.parameters = parameters, !.result = r.result]
    /\ UNCHANGED loopVars

CallTool(function_name, args, installs) ==
    /\ last.n < MaxOps
    /\ LET r == call_tool(function_name, args, installs,
                          tools, available_functions, globs)
       IN /\ tools' = r.tools
          /\ available_functions' = r.af
          /\ globs' = r.globs
          /\ last' = [NoCall EXCEPT !.n = last.n + 1, !.op = "call_tool",
                                    !.name = function_name, !.keys = args.keys,
                                    !.result = r.result, !.ran = r.ran]
    /\ UNCHANGED loopVars

RegNext ==
    \/ \E name \in RegNames, func \in {"f1", "f2"}, sch \in RegSchemas :
          RegisterTool(name, func, sch[1], sch[2])
    \/ \E name \in RegNames, code \in Sources, sch \in RegSchemas :
          CreateOrUpdateTool(name, code, sch[1], sch[2])
    \/ \E function_name \in Names, args \in CallArgs, installs \in BOOLEAN :
          CallTool(function_name, args, installs)

RegSpec == Init /\ [][RegNext]_vars

(***************************************************************************)
(* serialize_tool_result applied to serialized texts and maximum lengths   *)
(* (lines 125-131), on the state the module load leaves.                   *)
(***************************************************************************)
Chars == {"a", "b"}

Texts == UNION {[1..n -> Chars] : n \in 0..MaxLen}

SerializeToolResult(serialized_result, max_length) ==
    /\ last' = [NoCall EXCEPT !.n = 1, !.op = "serialize_tool_result",
                              !.text = serialized_result,
                              !.max_length = max_length,
                              !.out = Truncate(serialized_result, max_length)]
    /\ UNCHANGED <<tools, available_functions, globs, loopVars>>

SerNext ==
    \E serialized_result \in Texts, max_length \in 0..MaxLen :
        SerializeToolResult(serialized_result, max_length)

SerSpec == Init /\ [][SerNext]_vars


\* Every step of the loop is taken sooner or later: the completion call and
\* the tools return or raise, and the loop is the only thread of control.
FairSpec == Spec /\ WF_vars(Next)

(***************************************************************************)
(* Properties of run_main_loop.                                            *)
(***************************************************************************)
Done == pc \in {"Completed", "Exhausted"}

\* The loop is between turns or has stopped.
Settled == pc \in {"while", "Completed", "Exhausted"}

\* The requests tcs include one of the tool named task_completed.
AsksTaskCompleted(tcs) == "task_completed" \in {tcs[k].name : k \in 1..Len(tcs)}

Assistants(msgs) == {i \in 1..Len(msgs) : msgs[i].role = "assistant"}

Max(S) == IF S = {} THEN 0 ELSE CHOOSE i \in S : \A k \in S : k <= i

\* The index of the last assistant message of msgs before position j (0: none).
AssistantBefore(msgs, j) == Max({i \in Assistants(msgs) : i < j})

LastAssistant(msgs) == AssistantBefore(msgs, Len(msgs) + 1)

\* The number of tool-role messages that directly follow position i.
ToolRun(msgs, i) ==
    Max({n \in 0..(Len(msgs) - i) : \A k \in 1..n : msgs[i + k].role = "tool"})

\* Position i holds an assistant message whose requests all have their
\* tool-role result after it, one per request, in request order.
Answered(msgs, i) ==
    LET tcs == msgs[i].tool_calls
    IN /\ ToolRun(msgs, i) = Len(tcs)
       /\ \A k \in 1..Len(tcs) : /\ msgs[i + k].tool_call_id = tcs[k].id
                                 /\ msgs[i + k].name = tcs[k].name

\* C1: a turn whose assistant message requests task_completed (at any
\* position) ends the loop in Completed at that turn, after every tool call of
\* the message got its tool-role result in request order, and no completion
\* call follows: the loop is never between turns, nor Exhausted, with such a
\* message in the conversation, and in Completed the last assistant message
\* requests task_completed and is fully answered.
C1_CompletionRequestEndsLoop ==
    /\ pc \in {"while", "Exhausted"} =>
          \A i \in Assistants(messages) : ~AsksTaskCompleted(messages[i].tool_calls)
    /\ pc = "Completed" =>
          LET p == LastAssistant(messages)
          IN /\ p > 0
             /\ AsksTaskCompleted(messages[p].tool_calls)
             /\ Answered(messages, p)
             /\ Len(messages) = p + Len(messages[p].tool_calls)

\* C2: whenever the loop issues a completion call, and when it has stopped,
\* every assistant message with n tool-call requests is followed by exactly n
\* tool-role messages, one per request (none when n = 0).
C2_OneResultPerRequest ==
    Settled => \A i \in Assistants(messages) : Answered(messages, i)

\* C3: in every reachable state each tool-role message carries the id and the
\* function name of a request of the nearest preceding assistant message, and
\* the i-th tool-role message after an assistant message answers its i-th
\* request.
C3_ResultsCorrelated ==
    \A j \in 1..Len(messages) :
        messages[j].role = "tool" =>
            LET p == AssistantBefore(messages, j)
            IN /\ p > 0
               /\ j - p <= Len(messages[p].tool_calls)
               /\ \A k \in (p + 1)..j : messages[k].role = "tool"
               /\ messages[j].tool_call_id = messages[p].tool_calls[j - p].id
               /\ messages[j].name = messages[p].tool_calls[j - p].name

\* C3 witness: an assistant message with two requests of different names has
\* both its results appended.
C3_Witness ==
    \E p \in Assistants(messages) :
        /\ Len(messages[p].tool_calls) >= 2
        /\ messages[p].tool_calls[1].name # messages[p].tool_calls[2].name
        /\ Len(messages) >= p + 2
        /\ messages[p + 2].role = "tool"

\* C4: a request whose arguments cannot be decoded gets a tool-role message
\* of its own once the for loop has passed it, and the loop goes on with the
\* rest of the turn: when the turn of an assistant message is over, each of its
\* undecodable requests has a tool-role message carrying its id.
C4_DecodeFailureReported ==
    \A i \in Assistants(messages) :
        (pc # "for" \/ i # LastAssistant(messages)) =>
            \A k \in 1..Len(messages[i].tool_calls) :
                ~messages[i].tool_calls[k].arguments.wf =>
                    \E j \in (i + 1)..Len(messages) :
                        /\ messages[j].role = "tool"
                        /\ messages[j].tool_call_id = messages[i].tool_calls[k].id

\* C5: a turn whose completion call raises appends nothing, advances the turn
\* counter by one and leaves the loop running, and the completion call after
\* it receives the conversation the failed call received.
C5_FailedCompletionIsNoOp ==
    [][/\ (event' = "completion_raised" /\ calls' = calls + 1) =>
             /\ messages' = messages
             /\ appended' = appended
             /\ iteration' = iteration + 1
             /\ pc' = "while"
       /\ (event = "completion_raised" /\ calls' = calls + 1) =>
             request'.messages = request.messages]_vars

\* C5 witness: the completion call of turn 3 has raised after two turns that
\* appended messages (and turn 4 can begin).
C5_Witness ==
    /\ event = "completion_raised"
    /\ iteration = 3
    /\ Len(messages) >= 5
    /\ pc = "while"

\* C6: a turn that ends in the handler of lines 263-267 leaves the
\* conversation as it was when the turn started (as the turn's completion call
\* received it).
C6_AbandonedTurnAppendsNothing ==
    event \in {"completion_raised", "decode_error", "serialize_error"} =>
        messages = request.messages


\* The turn budget: at most max_iterations completion calls, one per turn
\* (the turn that breaks out of the loop is counted by the call it made).
BudgetKept ==
    /\ calls <= max_iterations
    /\ calls = iteration + (IF pc \in {"for", "Completed"} THEN 1 ELSE 0)
    /\ pc = "Exhausted" =>
          /\ calls = max_iterations
          /\ Len(messages) = 2 + appended
          /\ SubSeq(messages, 1, 2) = <<SystemMessage, UserMessage>>
          /\ \A i \in 3..Len(messages) : messages[i].role \in {"assistant", "tool"}
    /\ pc = "Completed" =>
          \E i \in Assistants(messages) : AsksTaskCompleted(messages[i].tool_calls)

\* A run that has not ended is at a position where a step is enabled: the
\* completion call (which returns or raises), the exit of the while loop, the
\* next request of the for loop, or the end of the for loop.
NotStuck ==
    \/ Done
    \/ pc = "while" /\ iteration < max_iterations
    \/ pc = "while" /\ iteration >= max_iterations
    \/ pc = "for" /\ idx \in 1..Len(tool_calls)
    \/ pc = "for" /\ idx = Len(tool_calls) + 1

\* A step of the loop ends the run, ends the turn (the turn counter advances),
\* enters the for loop of the turn, or advances the for loop by one request.
TurnProgress ==
    /\ ~Done
    /\ \/ Done' /\ iteration' = iteration
       \/ pc' = "while" /\ iteration' = iteration + 1
       \/ pc = "while" /\ pc' = "for" /\ iteration' = iteration /\ idx' = 1
       \/ /\ pc = "for" /\ pc' = "for" /\ iteration' = iteration
          /\ tool_calls' = tool_calls /\ idx <= Len(tool_calls) /\ idx' = idx + 1

\* C7: every run ends in Completed or Exhausted after at most 50 completion
\* calls, each turn (successful, without tool calls, or failed) uses one unit of
\* the budget, and a run without a task_completed request makes exactly 50
\* completion calls and ends in Exhausted with the seed messages and every
\* appended message in the conversation.
\* Stated as the invariants and the variant that give termination under
\* FairSpec: a run that has not ended can take a step, and every step ends the
\* run, starts the next turn, or moves forward within the turn.
C7_TerminatesWithinBudget ==
    /\ [](BudgetKept /\ NotStuck)
    /\ [][TurnProgress]_vars

\* C7 witness: a run without a task_completed request has ended in Exhausted
\* with messages appended on the way.
C7_Witness ==
    /\ pc = "Exhausted"
    /\ appended >= 3
    /\ \A i \in Assistants(messages) : ~AsksTaskCompleted(messages[i].tool_calls)


\* C8: the loop stops before the turn limit only by the break of a turn whose
\* assistant message requested task_completed; a failed completion call, a
\* decode or serialization failure, and a tool result of any kind (not found,
\* execution error, failed definition) leave the loop running.
C8_OnlyCompletionStopsEarly ==
    /\ pc = "Completed" =>
          LET p == LastAssistant(messages)
          IN /\ event = "break"
             /\ p > 0
             /\ messages[p].tool_calls = tool_calls
             /\ AsksTaskCompleted(tool_calls)
    /\ pc = "Exhausted" => iteration = max_iterations /\ calls = max_iterations
    /\ event \in {"completion_raised", "decode_error", "serialize_error"} => pc = "while"
    /\ event = "tool_result" => pc = "for"

\* C8 witness: the loop has stopped in Completed before the limit, after a
\* failed completion call and a turn abandoned by a decode failure.
C8_Witness ==
    /\ pc = "Completed"
    /\ calls < max_iterations
    /\ iteration >= 2
    /\ \E i \in Assistants(messages) : ~Answered(messages, i)

(***************************************************************************)
(* Properties of the registry functions.                                   *)
(***************************************************************************)
\* The entries of the schema list T under name n, and the other ones.
Entries(T, n) == SelectSeq(T, LAMBDA tool : tool.name = n)

Others(T, n) == SelectSeq(T, LAMBDA tool : tool.name # n)

Registered(T, AF, n) == AF[n] # None \/ Entries(T, n) # <<>>

\* The step is a direct call of the registry function op.
Called(op) == last'.n = last.n + 1 /\ last'.op = op

\* C9: after any sequence of calls, a register_tool call that returns, for a
\* name that is already registered, leaves exactly one schema entry for the
\* name, the one just passed, makes the passed implementation the registered
\* one, and leaves the entries of all other names as they were; and call_tool
\* runs the implementation registered last.
C9_LastWriteWins ==
    [][/\ (Called("register_tool") /\ ~last'.raised
           /\ Registered(tools, available_functions, last'.name)) =>
             LET n == last'.name
             IN /\ Entries(tools', n) =
                      <<ToolSchema(n, last'.description, last'.parameters)>>
                /\ available_functions'[n] = last'.func
                /\ Others(tools', n) = Others(tools, n)
                /\ \A m \in Names \ {n} :
                      available_functions'[m] = available_functions[m]
       /\ Called("call_tool") => last'.ran = available_functions[last'.name]]_vars

\* C9 witness: task_completed was registered again and call_tool then ran the
\* new implementation (while the schema list still has three entries).
C9_Witness ==
    /\ last.op = "call_tool"
    /\ last.name = "task_completed"
    /\ last.ran = "f2"
    /\ Len(tools) = 3
    /\ Len(Entries(tools, "task_completed")) = 1

\* C10: create_or_update_tool with a source that does not compile returns the
\* failure result and leaves the schema list, the implementations and the
\* global scope as they were.
C10_CompileFailureChangesNothing ==
    [][(Called("create_or_update_tool") /\ ~Compiles(last'.code)) =>
          /\ last'.result[1] = "create_error"
          /\ tools' = tools
          /\ available_functions' = available_functions
          /\ globs' = globs]_vars

\* C10 witness: a source that does not compile was passed under the name foo
\* after foo had been registered, and foo's entry is still there.
C10_Witness ==
    /\ last.op = "create_or_update_tool"
    /\ ~Compiles(last.code)
    /\ last.name = "foo"
    /\ last.result[1] = "create_error"
    /\ available_functions["foo"] # None
    /\ Len(Entries(tools, "foo")) = 1

\* The object a source defines at top level under name n (None: the source
\* does not compile, or defines nothing under n).
Defines(code, n) ==
    IF Compiles(code) /\ \E b \in Binds(code) : b[1] = n
    THEN (CHOOSE b \in Binds(code) : b[1] = n)[2]
    ELSE None

\* C11: for every name and source, a create_or_update_tool call whose source
\* produces no top-level definition under the name returns the failure result
\* and leaves the name's schema entries and implementation as they were, and
\* a call that returns success has registered the definition its source
\* produced; also when the name is already bound in the global scope.
C11_RegistersOnlyWhatTheSourceDefines ==
    [][Called("create_or_update_tool") =>
          LET n == last'.name
              defined == Defines(last'.code, n)
          IN /\ defined = None =>
                   /\ last'.result[1] = "create_error"
                   /\ Entries(tools', n) = Entries(tools, n)
                   /\ available_functions'[n] = available_functions[n]
             /\ last'.result[1] = "created" =>
                   /\ defined # None
                   /\ available_functions'[n] = defined]_vars

(***************************************************************************)
(* Properties of the registry as the loop uses it.                         *)
(***************************************************************************)
\* The names that have an entry in the schema list T, and the names that have
\* an implementation in AF.
SchemaNames(T) == {T[i].name : i \in 1..Len(T)}

ImplNames(AF) == {n \in Names : AF[n] # None}

\* C12: the schema list passed to every completion call has an entry for each
\* of the three built-in names, and no step of the loop, a failed dynamic
\* definition included, removes a name from the schema list or from the
\* implementations.
C12_NamesNeverLost ==
    /\ [](calls > 0 => BuiltinNames \subseteq SchemaNames(request.tools))
    /\ [][/\ SchemaNames(tools) \subseteq SchemaNames(tools')
          /\ ImplNames(available_functions) \subseteq
                ImplNames(available_functions')]_vars

\* The loop is about to process a tool call whose arguments decode and whose
\* name has no registered implementation.
CallsUnregistered ==
    /\ pc = "for"
    /\ idx <= Len(tool_calls)
    /\ tool_calls[idx].arguments.wf
    /\ available_functions[tool_calls[idx].name] = None

\* C13: a tool call whose name has no registered implementation does not
\* raise: the step appends exactly one message, the tool-role result of that
\* call whose text is the not-found failure naming the tool, runs no
\* implementation (the registry and the global scope stay as they were) and
\* goes on to the next tool call of the turn.
C13_UnknownToolIsReported ==
    [][CallsUnregistered =>
          LET tool_call == tool_calls[idx]
          IN /\ Len(messages') = Len(messages) + 1
             /\ SubSeq(messages', 1, Len(messages)) = messages
             /\ messages'[Len(messages')].role = "tool"
             /\ messages'[Len(messages')].tool_call_id = tool_call.id
             /\ messages'[Len(messages')].name = tool_call.name
             /\ messages'[Len(messages')].content =
                   <<"json", "not_found", tool_call.name, "-">>
             /\ event' = "tool_result"
             /\ tools' = tools
             /\ available_functions' = available_functions
             /\ globs' = globs
             /\ pc' = "for"
             /\ idx' = idx + 1
             /\ tool_calls' = tool_calls]_vars

\* C13 witness: foo was requested before any definition of it, got the
\* not-found result, and a later tool call of the same turn got its result.
C13_Witness ==
    /\ Len(messages) >= 5
    /\ messages[3].role = "assistant"
    /\ messages[4].role = "tool"
    /\ messages[4].content = <<"json", "not_found", "foo", "-">>
    /\ messages[5].role = "tool"
    /\ messages[5].tool_call_id = messages[3].tool_calls[2].id

C15_TruncationKeepsPrefixAndStatesLength ==
    last.op = "serialize_tool_result" =>
        LET s == last.text
            m == last.max_length
        IN /\ Len(s) <= m => last.out = s
           /\ Len(s) > m =>
                 /\ Len(last.out) > m
                 /\ SubSeq(last.out, 1, m) = SubSeq(s, 1, m)
                 /\ SubSeq(last.out, m + 1, Len(last.out)) =
                       <<"(Note: Result was truncated to ", ToString(m),
                         " characters out of ", ToString(Len(s)),
                         " total characters.)">>

\* C15 witness: a text of three characters was cut to its first two.
C15_Witness ==
    /\ last.op = "serialize_tool_result"
    /\ Len(last.text) = 3
    /\ last.max_length = 2
    /\ Len(last.out) > 2
    /\ SubSeq(last.out, 1, 2) = SubSeq(last.text, 1, 2)

(***************************************************************************)
(* Properties of the conversation.                                         *)
(***************************************************************************)
\* C16: the conversation starts with one system message followed by one user
\* message, every other message is an assistant or a tool message, and every
\* step leaves the earlier conversation as a prefix of the later one: nothing
\* is removed, reordered or rewritten.
C16_ConversationIsSeededAndAppendOnly ==
    /\ [](/\ Len(messages) >= 2
          /\ messages[1].role = "system"
          /\ messages[2].role = "user"
          /\ \A i \in 3..Len(messages) : messages[i].role \in {"assistant", "tool"})
    /\ [][/\ Len(messages') >= Len(messages)
          /\ SubSeq(messages', 1, Len(messages)) = messages]_vars

\* C16 witness: after a failed completion call and at least one more turn the
\* conversation holds the two seed messages, an assistant message and tool
\* results.
C16_Witness ==
    /\ calls >= 3
    /\ Len(messages) >= 5
    /\ messages[1] = SystemMessage
    /\ messages[2] = UserMessage
    /\ messages[3].role = "assistant"
    /\ messages[Len(messages)].role = "tool"
    /\ iteration >= 2

(***************************************************************************)
(* Properties of the registry under direct calls (continued).              *)
(***************************************************************************)
\* C17: after any sequence of register_tool and create_or_update_tool calls,
\* successful or failed, the names in the schema list are exactly the names
\* that have an implementation, and no name has two entries in the schema
\* list.
C17_SchemaListMatchesImplementations ==
    /\ SchemaNames(tools) = ImplNames(available_functions)
    /\ \A n \in Names : Len(Entries(tools, n)) <= 1

\* C18: a create_or_update_tool call that returns the failure result, for
\* whatever cause, leaves the schema list and the implementations exactly as
\* they were before the call.
C18_FailedDefinitionChangesNothing ==
    [][(Called("create_or_update_tool") /\ last'.result[1] = "create_error") =>
          /\ tools' = tools
          /\ available_functions' = available_functions]_vars

(***************************************************************************)
(* Redefinition as the loop sees it.                                       *)
(***************************************************************************)
\* The position of the last tool-role result in msgs that reports a successful
\* definition of the name n (0: none).
LastCreated(msgs, n) ==
    Max({j \in 1..Len(msgs) : /\ msgs[j].role = "tool"
                              /\ msgs[j].content = <<"json", "created", n, "-">>})

\* The decoded arguments of the tool call that the result at position j answers.
ArgumentsOf(msgs, j) ==
    LET a == AssistantBefore(msgs, j)
    IN msgs[a].tool_calls[j - a].arguments.val

\* C19: once a create_or_update_tool call has returned success for a name,
\* and until a later one does, the implementation a tool call to that name
\* runs is the one that definition produced, the name has exactly one schema
\* entry, the one that definition passed, and every completion call made
\* after the definition was passed that entry.
C19_RedefinitionTakesEffect ==
    \A n \in Names :
        LET j == LastCreated(messages, n)
        IN j > 0 =>
              LET args == ArgumentsOf(messages, j)
                  schema == ToolSchema(n, args.description, args.parameters)
              IN /\ Defines(args.code, n) # None =>
                       available_functions[n] = Defines(args.code, n)
                 /\ Entries(tools, n) = <<schema>>
                 /\ Len(request.messages) >= j =>
                       Entries(request.tools, n) = <<schema>>

=============================================================================
